---- MODULE Spec2Model ----
(***************************************************************************)
(* State-machine model of tUNO (src/tuno.py, src/cycle.py,                 *)
(* src/structures.py): the deck, the two piles, the hands, the player      *)
(* cycle, the alert queue and the main loop of UNOGame.play.               *)
(***************************************************************************)
EXTENDS Integers, Sequences, FiniteSets, TLC

(***************************************************************************)
(* structures.py: Color, CardValue, Card                                   *)
(***************************************************************************)
BLUE == "B"
RED == "R"
GREEN == "G"
YELLOW == "Y"
COLORLESS == ""

\* Color, in the enumeration order of the class
Color == <<BLUE, RED, GREEN, YELLOW, COLORLESS>>

ZERO == "0"
DRAW_TWO == "+2"
SKIP == "skip"
REVERSE == "reverse"
WILD == "wild"
WILD_DRAW_FOUR == "wild +4"

\* CardValue, in the enumeration order of the class
CardValue == <<ZERO, "1", "2", "3", "4", "5", "6", "7", "8", "9",
               DRAW_TWO, SKIP, REVERSE, WILD, WILD_DRAW_FOUR>>

Card(color, value) == [color |-> color, value |-> value]

\* Card.is_action_card
is_action_card(card) ==
    card.value \in {WILD_DRAW_FOUR, DRAW_TWO, SKIP, REVERSE}

(***************************************************************************)
(* Sequence helpers standing for Python list operations                    *)
(***************************************************************************)
Range(s) == {s[i] : i \in DOMAIN s}

\* [x] * n
Times(x, n) == [i \in 1..n |-> x]

\* s[:-1]
AllButLast(s) == IF Len(s) = 0 THEN <<>> ELSE SubSeq(s, 1, Len(s) - 1)

\* s[::-1]
Reversed(s) == [i \in 1..Len(s) |-> s[Len(s) + 1 - i]]

\* list.index(x) + 1, or 0 when x is not in the list
IndexOf(s, x) ==
    IF \E i \in DOMAIN s : s[i] = x
    THEN CHOOSE i \in DOMAIN s : s[i] = x /\ \A j \in 1..(i - 1) : s[j] # x
    ELSE 0

\* the list after list.remove(x), x being in the list
Removed(s, x) ==
    LET k == IndexOf(s, x)
    IN  SubSeq(s, 1, k - 1) \o SubSeq(s, k + 1, Len(s))

Count(s, x) == Cardinality({i \in DOMAIN s : s[i] = x})

(***************************************************************************)
(* UNOGame.build_deck                                                      *)
(***************************************************************************)
\* mutant of DeckValues: the test card != CardValue.ZERO left out
RECURSIVE DeckValuesTwoZeros(_, _)
DeckValuesTwoZeros(color, k) ==
    IF k > Len(CardValue) THEN <<>>
    ELSE LET card == CardValue[k]
             these == IF card \in {WILD, WILD_DRAW_FOUR} THEN <<>>
                      ELSE <<Card(color, card), Card(color, card)>>
         IN  these \o DeckValuesTwoZeros(color, k + 1)

RECURSIVE DeckValues(_, _)
DeckValues(color, k) ==
    IF k > Len(CardValue) THEN <<>>
    ELSE LET card == CardValue[k]
             these == IF card \in {WILD, WILD_DRAW_FOUR} THEN <<>>
                      ELSE IF card # ZERO
                           THEN <<Card(color, card), Card(color, card)>>
                           ELSE <<Card(color, card)>>
         IN  these \o DeckValues(color, k + 1)

RECURSIVE DeckColors(_)
DeckColors(c) ==
    IF c > Len(Color) THEN <<>>
    ELSE (IF Color[c] = COLORLESS THEN <<>> ELSE DeckValues(Color[c], 1))
         \o DeckColors(c + 1)

build_deck ==
    Times(Card(COLORLESS, WILD), 4)
    \o Times(Card(COLORLESS, WILD_DRAW_FOUR), 4)
    \o DeckColors(1)

(***************************************************************************)
(* cycle.py: a cycle is [iterable, length, last_index]                     *)
(***************************************************************************)
cycle(iterable) ==
    [iterable |-> iterable, length |-> Len(iterable), last_index |-> -1]

\* mutant of GetItem: the index counted from the cursor
GetItemAhead(c, item) == c.iterable[((c.last_index + item) % c.length) + 1]

\* cycle.__getitem__
GetItem(c, item) == c.iterable[(item % c.length) + 1]

\* mutant of NextItem: next_index without its + 1
NextItemSame(c) ==
    IF c.last_index >= 0 THEN GetItem(c, c.last_index)
    ELSE c.iterable[1]

\* cycle.next: the item returned
NextItem(c) ==
    IF c.last_index >= 0 THEN GetItem(c, c.last_index + 1)
    ELSE c.iterable[1]

\* mutant of NextCycle: the first call does not save the index
NextCycleFirstLost(c, save_last) ==
    IF c.last_index >= 0
    THEN IF save_last THEN [c EXCEPT !.last_index = c.last_index + 1] ELSE c
    ELSE c

\* cycle.next: the cycle afterwards
NextCycle(c, save_last) ==
    IF c.last_index >= 0
    THEN IF save_last THEN [c EXCEPT !.last_index = c.last_index + 1] ELSE c
    ELSE IF save_last THEN [c EXCEPT !.last_index = 0] ELSE c

\* cycle.all
CycleAll(c) == [i \in 1..c.length |-> GetItem(c, c.last_index + 1 + (i - 1))]

(***************************************************************************)
(* The program state.  A game object S is the record of these variables;   *)
(* the methods of UNOGame are operators from game objects to game objects. *)
(***************************************************************************)
VARIABLES
    players,        \* UNOGame.players: name -> hand (list of cards)
    draw_pile,      \* UNOGame.draw_pile
    discard_pile,   \* UNOGame.discard_pile
    player_cycle,   \* UNOGame.player_cycle (of player names)
    alert_queue,    \* UNOGame.__alert_queue
    layout_alerts,  \* layout["alerts"]: the rendered last alerts
    game_exit,      \* UNOGame._game_exit
    clock,          \* datetime.now(), in seconds
    pc,             \* position of the main thread in play()
    current_player, \* play(): current_player
    draw_count,     \* play(): draw_count
    running,        \* play(): running
    rejections,     \* history: answers rejected so far
    turn_log,       \* history: one entry per turn started
    error,          \* the exception a call ended with, or "none"
    returned,       \* what the last play_card returned, or "none"
    player_names,   \* the keys of UNOGame.players, in insertion order
    call,           \* history: the arguments of a direct call of play_card
    lock,           \* UNOGame.__alert_lock: "free" or the thread holding it
    sweeper_pc,     \* position of the thread running purge_old_alerts
    sweep,          \* purge_old_alerts: now, and the place of the iterator
    pending,        \* alert(): the AlertItem being pushed
    renderable,     \* alert(): renderable
    cycle_call      \* history: the last direct call on the cycle object, and
                    \* the number of calls of next that moved its cursor

vars == <<players, draw_pile, discard_pile, player_cycle, alert_queue,
          layout_alerts, game_exit, clock, pc, current_player, draw_count,
          running, rejections, turn_log, error, returned,
          player_names, call, lock, sweeper_pc, sweep, pending, renderable,
          cycle_call>>

\* the variables of the two threads' passage through the alert queue
threads == <<lock, sweeper_pc, sweep, pending, renderable>>

\* the thread of purge_old_alerts before its first pass, no alert under way
NoSweep == [now |-> 0, index |-> 0]
NoAlert == [text |-> <<>>, created_time |-> 0]
NoCycleCall == [op |-> "-", arg |-> 0, result |-> "-", consumed |-> 0]

Cur ==
    [players |-> players, draw_pile |-> draw_pile,
     discard_pile |-> discard_pile, player_cycle |-> player_cycle,
     alert_queue |-> alert_queue, layout_alerts |-> layout_alerts,
     game_exit |-> game_exit, clock |-> clock, pc |-> pc,
     current_player |-> current_player, draw_count |-> draw_count,
     running |-> running, rejections |-> rejections,
     turn_log |-> turn_log, error |-> error, returned |-> returned,
     player_names |-> player_names, call |-> call]

Install(S) ==
    /\ players' = S.players
    /\ draw_pile' = S.draw_pile
    /\ discard_pile' = S.discard_pile
    /\ player_cycle' = S.player_cycle
    /\ alert_queue' = S.alert_queue
    /\ layout_alerts' = S.layout_alerts
    /\ game_exit' = S.game_exit
    /\ clock' = S.clock
    /\ pc' = S.pc
    /\ current_player' = S.current_player
    /\ draw_count' = S.draw_count
    /\ running' = S.running
    /\ rejections' = S.rejections
    /\ turn_log' = S.turn_log
    /\ error' = S.error
    /\ returned' = S.returned
    /\ player_names' = S.player_names
    /\ call' = S.call
    /\ UNCHANGED <<threads, cycle_call>>

IsState(S) ==
    /\ players = S.players
    /\ draw_pile = S.draw_pile
    /\ discard_pile = S.discard_pile
    /\ player_cycle = S.player_cycle
    /\ alert_queue = S.alert_queue
    /\ layout_alerts = S.layout_alerts
    /\ game_exit = S.game_exit
    /\ clock = S.clock
    /\ pc = S.pc
    /\ current_player = S.current_player
    /\ draw_count = S.draw_count
    /\ running = S.running
    /\ rejections = S.rejections
    /\ turn_log = S.turn_log
    /\ error = S.error
    /\ returned = S.returned
    /\ player_names = S.player_names
    /\ call = S.call
    /\ lock = "free"
    /\ sweeper_pc = "check"
    /\ sweep = NoSweep
    /\ pending = NoAlert
    /\ renderable = <<>>
    /\ cycle_call = NoCycleCall

NoPlayer == "-"
NoCard == Card("-", "-")
NoCall == [name |-> NoPlayer, card |-> NoCard]

\* the number of cards a player is dealt (deck[i * 7 : (i + 1) * 7])
HandSize == 7

\* the number of alerts rendered (self.__alert_queue[-5:])
ShownAlerts == 5

(***************************************************************************)
(* UNOGame.alert                                                           *)
(***************************************************************************)
LastItems(s, k) == IF Len(s) <= k THEN s ELSE SubSeq(s, Len(s) - k + 1, Len(s))

alert(S, text) ==
    LET queue == Append(S.alert_queue, [text |-> text, created_time |-> S.clock])
    IN  [S EXCEPT !.alert_queue = queue,
                  !.layout_alerts =
                      [i \in 1..Len(LastItems(queue, ShownAlerts)) |->
                          LastItems(queue, ShownAlerts)[i].text]]

(***************************************************************************)
(* UNOGame.draw_card.  random.shuffle is the input shuffle: "keep" leaves  *)
(* the list as it is, "reverse" reverses it.  The loop ends only with a    *)
(* card drawn; when the draw pile is empty and the refill is empty too it  *)
(* spins forever, each pass dropping the last discard: pc becomes "hung".  *)
(***************************************************************************)
ShuffleKinds == {"keep", "reverse"}

Shuffled(s, shuffle) == IF shuffle = "reverse" THEN Reversed(s) ELSE s

Hung(S) == S.pc = "hung"

\* mutant of Refill: the refill without the last two discards
RefillShort(S, shuffle) ==
    [S EXCEPT !.draw_pile =
                  Shuffled(AllButLast(AllButLast(S.discard_pile)), shuffle),
              !.discard_pile = AllButLast(S.discard_pile)]

\* one pass of the except branch
Refill(S, shuffle) ==
    [S EXCEPT !.draw_pile = Shuffled(AllButLast(S.discard_pile), shuffle),
              !.discard_pile = AllButLast(S.discard_pile)]

\* the try branch, the draw pile not being empty
TakeFirst(S, player) ==
    LET card == S.draw_pile[1]
    IN  [S EXCEPT !.draw_pile = Removed(S.draw_pile, card),
                  !.players[player] = Append(S.players[player], card)]

draw_card(S, player, shuffle) ==
    IF Hung(S) THEN S
    ELSE IF Len(S.draw_pile) > 0 THEN TakeFirst(S, player)
    ELSE IF Len(Refill(S, shuffle).draw_pile) > 0
         THEN TakeFirst(Refill(S, shuffle), player)
    ELSE [S EXCEPT !.draw_pile = <<>>, !.discard_pile = <<>>, !.pc = "hung"]

\* [self.draw_card(next_player) for _ in range(n)]
RECURSIVE DrawCards(_, _, _, _)
DrawCards(S, player, n, shuffle) ==
    IF n = 0 THEN S
    ELSE DrawCards(draw_card(S, player, shuffle), player, n - 1, shuffle)

(***************************************************************************)
(* UNOGame.get_last_card, UNOGame.is_card_playable                         *)
(***************************************************************************)
HasLastCard(S) == Len(S.discard_pile) # 0

get_last_card(S) == S.discard_pile[Len(S.discard_pile)]

\* mutant of is_card_playable: the condition last_card.color == COLORLESS,
\* commented out in the source, put back
is_card_playable_colorless(S, card) ==
    IF ~HasLastCard(S) THEN TRUE
    ELSE \/ card.color = get_last_card(S).color
         \/ card.value = get_last_card(S).value
         \/ card.value \in {WILD, WILD_DRAW_FOUR}
         \/ get_last_card(S).color = COLORLESS

is_card_playable(S, card) ==
    IF ~HasLastCard(S) THEN TRUE
    ELSE \/ card.color = get_last_card(S).color
         \/ card.value = get_last_card(S).value
         \/ card.value \in {WILD, WILD_DRAW_FOUR}

(***************************************************************************)
(* UNOGame.computer_get_wild_color.  statistics.mode returns the first     *)
(* most common value; random.choice is the input pick.                     *)
(***************************************************************************)
RealColors == {RED, GREEN, BLUE, YELLOW}

Mode(s) ==
    LET best == CHOOSE i \in DOMAIN s :
                    /\ \A j \in DOMAIN s : Count(s, s[j]) <= Count(s, s[i])
                    /\ \A j \in 1..(i - 1) : Count(s, s[j]) < Count(s, s[i])
    IN  s[best]

computer_get_wild_color(S, pick) ==
    LET deck == S.players["computer"]
        colors == SelectSeq([i \in DOMAIN deck |-> deck[i].color],
                            LAMBDA c : c # COLORLESS)
    IN  IF Len(colors) = 0 THEN pick ELSE Mode(colors)

(***************************************************************************)
(* History kept for the properties: the entry of the turn in progress      *)
(* records the card played, the cards drawn by choice and a pass.          *)
(***************************************************************************)
LogEntry(name, order) ==
    [name |-> name, played |-> NoCard, drawn |-> 0, passed |-> FALSE,
     order |-> order]

LogPlayed(S, card) ==
    IF Len(S.turn_log) = 0 THEN S
    ELSE [S EXCEPT !.turn_log[Len(S.turn_log)].played = card]

LogDrawn(S) ==
    IF Len(S.turn_log) = 0 THEN S
    ELSE [S EXCEPT !.turn_log[Len(S.turn_log)].drawn = @ + 1]

LogPassed(S) ==
    IF Len(S.turn_log) = 0 THEN S
    ELSE [S EXCEPT !.turn_log[Len(S.turn_log)].passed = TRUE]

(***************************************************************************)
(* UNOGame.apply_actions.  color is the answer to the color prompt (or the *)
(* computer's random pick), shuffle the outcome of random.shuffle.         *)
(***************************************************************************)
ColorName(color) ==
    CASE color = RED -> "red"
      [] color = GREEN -> "green"
      [] color = BLUE -> "blue"
      [] color = YELLOW -> "yellow"
      [] OTHER -> "violet"

\* the color chosen for a wild card by last_player
NewColor(S, last_player, color) ==
    IF last_player = "computer" THEN computer_get_wild_color(S, color)
    ELSE color

\* self.discard_pile[-1] = Card(new_color, last_card.value)
Rebind(S, new_color, value) ==
    [S EXCEPT !.discard_pile[Len(S.discard_pile)] = Card(new_color, value)]

\* case CardValue.WILD
ApplyWild(S, last_card, last_player, color) ==
    LET new_color == NewColor(S, last_player, color)
    IN  alert(Rebind(S, new_color, last_card.value),
              <<"Color acceptable on wild card", ColorName(new_color)>>)

\* mutant of ApplyDrawTwo: range(1) for range(2)
ApplyDrawTwoOnce(S, next_player, shuffle) ==
    LET drawn == DrawCards(S, next_player, 1, shuffle)
    IN  IF Hung(drawn) THEN drawn
        ELSE alert(drawn, <<"2 cards added on", next_player>>)

\* case CardValue.DRAW_TWO
ApplyDrawTwo(S, next_player, shuffle) ==
    LET drawn == DrawCards(S, next_player, 2, shuffle)
    IN  IF Hung(drawn) THEN drawn
        ELSE alert(drawn, <<"2 cards added on", next_player>>)

\* case CardValue.WILD_DRAW_FOUR
ApplyWildDrawFour(S, last_card, last_player, next_player, color, shuffle) ==
    LET drawn == DrawCards(S, next_player, 4, shuffle)
        new_color == NewColor(drawn, last_player, color)
    IN  IF Hung(drawn) THEN drawn
        ELSE alert(Rebind(drawn, new_color, last_card.value),
                   <<"4 cards added on", next_player,
                     "Color acceptable on wild card", ColorName(new_color)>>)

\* mutant of ApplySkip: next(False) for next()
ApplySkipPeek(S) ==
    LET skipped_player == NextItem(S.player_cycle)
    IN  alert([S EXCEPT !.player_cycle = NextCycle(S.player_cycle, FALSE)],
              <<"chance is skipped", skipped_player>>)

\* case CardValue.SKIP
ApplySkip(S) ==
    LET skipped_player == NextItem(S.player_cycle)
    IN  alert([S EXCEPT !.player_cycle = NextCycle(S.player_cycle, TRUE)],
              <<"chance is skipped", skipped_player>>)

\* [self.player_cycle.next() for _ in range(self.player_cycle._length - 1)]
NextItems(c) == [i \in 1..(c.length - 1) |-> GetItem(c, c.last_index + i)]

\* mutant of ApplyReverse: the [::-1] left out
ApplyReverseKept(S, last_player, next_player) ==
    LET further_players ==
            IF Cardinality(DOMAIN S.players) > 2
            THEN <<last_player>> \o NextItems(S.player_cycle)
            ELSE <<last_player, next_player>>
    IN  alert([S EXCEPT !.player_cycle = cycle(further_players)],
              <<"Player cycle reversed.">>)

\* case CardValue.REVERSE
ApplyReverse(S, last_player, next_player) ==
    LET further_players ==
            IF Cardinality(DOMAIN S.players) > 2
            THEN Reversed(<<last_player>> \o NextItems(S.player_cycle))
            ELSE <<last_player, next_player>>
    IN  alert([S EXCEPT !.player_cycle = cycle(further_players)],
              <<"Player cycle reversed.">>)

apply_actions(S, color, shuffle) ==
    IF ~HasLastCard(S) THEN S
    ELSE IF ~is_action_card(get_last_card(S)) THEN S
    ELSE LET last_card == get_last_card(S)
             next_player == NextItem(S.player_cycle)
             last_player == GetItem(S.player_cycle, S.player_cycle.last_index)
         IN  CASE last_card.value = WILD ->
                    ApplyWild(S, last_card, last_player, color)
               [] last_card.value = DRAW_TWO ->
                    ApplyDrawTwo(S, next_player, shuffle)
               [] last_card.value = WILD_DRAW_FOUR ->
                    ApplyWildDrawFour(S, last_card, last_player, next_player,
                                      color, shuffle)
               [] last_card.value = SKIP -> ApplySkip(S)
               [] last_card.value = REVERSE ->
                    ApplyReverse(S, last_player, next_player)
               [] OTHER -> [S EXCEPT !.error = "GameplayError"]

(***************************************************************************)
(* UNOGame.play_card.  A call that raises leaves the exception in error:   *)
(* GameplayError for an unplayable card, the ValueError of list.remove for *)
(* a playable card that is not in the hand.                                *)
(***************************************************************************)
Bool(b) == IF b THEN "True" ELSE "False"

play_card(S, player_name, card, color, shuffle) ==
    IF is_card_playable(S, card)
    THEN IF IndexOf(S.players[player_name], card) = 0
         THEN [S EXCEPT !.error = "ValueError"]
         ELSE LET moved ==
                      [S EXCEPT
                          !.players[player_name] =
                              Removed(S.players[player_name], card),
                          !.discard_pile = Append(S.discard_pile, card)]
                  applied == apply_actions(LogPlayed(moved, card), color, shuffle)
              IN  IF Hung(applied) \/ applied.error # "none" THEN applied
                  ELSE [applied EXCEPT !.returned = Bool(is_action_card(card))]
    ELSE [S EXCEPT !.error = "GameplayError"]

(***************************************************************************)
(* UNOGame.computer_move.  pick is the index random.choice takes.          *)
(***************************************************************************)
\* the first index of the hand satisfying test, or 0
FirstIndex(deck, test(_)) ==
    IF \E i \in DOMAIN deck : test(deck[i])
    THEN CHOOSE i \in DOMAIN deck :
             test(deck[i]) /\ \A j \in 1..(i - 1) : ~test(deck[j])
    ELSE 0

MatchesLast(S, card) ==
    \/ card.color = get_last_card(S).color
    \/ card.value = get_last_card(S).value

IsColorless(card) == card.color = COLORLESS

\* mutant of DrawAndPlay: the drawn card is played without the test
DrawAndPlayUntested(S, color, shuffle) ==
    LET drew == draw_card(S, "computer", shuffle)
        deck == drew.players["computer"]
        drawn_card == deck[Len(deck)]
    IN  IF Hung(drew) THEN drew
        ELSE play_card(LogDrawn(drew), "computer", drawn_card, color, shuffle)

\* the last resort: draw a card and play it if it is playable
DrawAndPlay(S, color, shuffle) ==
    LET drew == draw_card(S, "computer", shuffle)
        deck == drew.players["computer"]
        drawn_card == deck[Len(deck)]
    IN  IF Hung(drew) THEN drew
        ELSE IF is_card_playable(drew, drawn_card)
             THEN play_card(LogDrawn(drew), "computer", drawn_card, color, shuffle)
        ELSE LogDrawn(drew)

\* mutant of computer_move: the hand is scanned for a wild card first
computer_moveWildFirst(S, pick, color, shuffle) ==
    LET deck == S.players["computer"]
        by_last == FirstIndex(deck, LAMBDA card : MatchesLast(S, card))
        by_wild == FirstIndex(deck, IsColorless)
    IN  IF ~HasLastCard(S)
        THEN play_card(S, "computer", deck[pick], color, shuffle)
        ELSE IF by_wild # 0
             THEN play_card(S, "computer", deck[by_wild], color, shuffle)
        ELSE IF by_last # 0
             THEN play_card(S, "computer", deck[by_last], color, shuffle)
        ELSE DrawAndPlay(S, color, shuffle)

computer_move(S, pick, color, shuffle) ==
    LET deck == S.players["computer"]
        by_last == FirstIndex(deck, LAMBDA card : MatchesLast(S, card))
        by_wild == FirstIndex(deck, IsColorless)
    IN  IF ~HasLastCard(S)
        THEN play_card(S, "computer", deck[pick], color, shuffle)
        ELSE IF by_last # 0
             THEN play_card(S, "computer", deck[by_last], color, shuffle)
        ELSE IF by_wild # 0
             THEN play_card(S, "computer", deck[by_wild], color, shuffle)
        ELSE DrawAndPlay(S, color, shuffle)

(***************************************************************************)
(* UNOGame.play, one operator per step of the main loop.                   *)
(*   pc = "new"      the game is constructed, play() not yet called        *)
(*   pc = "turn"     at the top of the while loop                          *)
(*   pc = "computer" about to call computer_move                           *)
(*   pc = "prompt"   waiting for the answer of a human player              *)
(*   pc = "finished" the loop has ended with a winner                      *)
(*   pc = "hung"     inside draw_card, which never returns                 *)
(*   pc = "crashed"  an exception has left play()                          *)
(*   pc = "called"   play_card has been called directly and has ended      *)
(***************************************************************************)
\* mutant of Raised: the finally clause of __main__ left out
RaisedNoFinally(S) ==
    IF S.error = "none" THEN S
    ELSE [S EXCEPT !.pc = "crashed"]

\* an exception leaves play(); the finally clause of __main__ sets the flag
Raised(S) ==
    IF S.error = "none" THEN S
    ELSE [S EXCEPT !.pc = "crashed", !.game_exit = TRUE]

\* play(), up to the while loop
StartPlayOn(S) ==
    LET made == [S EXCEPT !.player_cycle = cycle(S.player_names)]
        first == alert(made, <<"Alerts will show up here.">>)
        second == alert(first, <<"Current player order">>
                                   \o CycleAll(made.player_cycle))
    IN  [second EXCEPT !.running = TRUE, !.pc = "turn"]

\* current_player = self.player_cycle.next(), and the branch on its name
BeginTurnOn(S) ==
    LET name == NextItem(S.player_cycle)
    IN  [S EXCEPT !.current_player = name,
                  !.player_cycle = NextCycle(S.player_cycle, TRUE),
                  !.draw_count = 0,
                  !.turn_log = Append(S.turn_log,
                                      LogEntry(name, S.player_cycle.iterable)),
                  !.pc = IF name = "computer" THEN "computer" ELSE "prompt"]

\* mutant of EndTurnOn: the test for an empty hand left out
EndTurnOnNoFinish(S) ==
    LET cards == S.players[S.current_player]
    IN  IF Len(cards) = 1
        THEN [alert(S, <<"UNO", S.current_player>>) EXCEPT !.pc = "turn"]
        ELSE [S EXCEPT !.pc = "turn"]

\* the UNO and UNO-finish tests that end an iteration of the while loop
EndTurnOn(S) ==
    LET cards == S.players[S.current_player]
    IN  IF Len(cards) = 1
        THEN [alert(S, <<"UNO", S.current_player>>) EXCEPT !.pc = "turn"]
        ELSE IF Len(cards) = 0
        THEN [alert(S, <<"UNO-finish", S.current_player>>) EXCEPT
                 !.running = FALSE, !.game_exit = TRUE, !.pc = "finished"]
        ELSE [S EXCEPT !.pc = "turn"]

\* self.computer_move(current_player), and the tests after the turn
ComputerMoveOn(S, pick, color, shuffle) ==
    LET moved == computer_move(S, pick, color, shuffle)
    IN  IF Hung(moved) THEN moved
        ELSE IF moved.error # "none" THEN Raised(moved)
        ELSE EndTurnOn(moved)

\* mutant of HumanMoveOn: draw_count += 1 left out
HumanMoveOnUncounted(S, ans, color, shuffle) ==
    LET hand == S.players[S.current_player]
        R == [S EXCEPT !.rejections = @ + 1]
        last_item == IF S.draw_count # 0 THEN "pass" ELSE "draw"
    IN  IF ans = Len(hand) + 1 /\ last_item = "pass"
        THEN IF S.draw_count > 0
             THEN EndTurnOn(LogPassed(S))
             ELSE alert(R, <<"Can't pass without drawing atleast once!">>)
        ELSE IF ans = Len(hand) + 1 /\ last_item = "draw"
        THEN IF S.draw_count > 0
             THEN alert(R, <<"Can't draw twice in the same chance.">>)
             ELSE LogDrawn(draw_card(S, S.current_player, shuffle))
        ELSE IF is_card_playable(S, hand[ans])
             THEN LET moved == play_card(S, S.current_player, hand[ans],
                                         color, shuffle)
                  IN  IF Hung(moved) THEN moved
                      ELSE IF moved.error # "none" THEN Raised(moved)
                      ELSE EndTurnOn(moved)
        ELSE alert(R, <<"Can't play the card", hand[ans].color,
                        hand[ans].value>>)

\* one pass of the inner loop of a human turn, ans being the answer; a pass
\* that ends the turn goes on to the tests after the turn
HumanMoveOn(S, ans, color, shuffle) ==
    LET hand == S.players[S.current_player]
        R == [S EXCEPT !.rejections = @ + 1]
        last_item == IF S.draw_count # 0 THEN "pass" ELSE "draw"
    IN  IF ans = Len(hand) + 1 /\ last_item = "pass"
        THEN IF S.draw_count > 0
             THEN EndTurnOn(LogPassed(S))
             ELSE alert(R, <<"Can't pass without drawing atleast once!">>)
        ELSE IF ans = Len(hand) + 1 /\ last_item = "draw"
        THEN IF S.draw_count > 0
             THEN alert(R, <<"Can't draw twice in the same chance.">>)
             ELSE LogDrawn(draw_card([S EXCEPT !.draw_count = @ + 1],
                                     S.current_player, shuffle))
        ELSE IF is_card_playable(S, hand[ans])
             THEN LET moved == play_card(S, S.current_player, hand[ans],
                                         color, shuffle)
                  IN  IF Hung(moved) THEN moved
                      ELSE IF moved.error # "none" THEN Raised(moved)
                      ELSE EndTurnOn(moved)
        ELSE alert(R, <<"Can't play the card", hand[ans].color,
                        hand[ans].value>>)

(***************************************************************************)
(* UNOGame.__init__: the game object built from the shuffled list of       *)
(* players and the shuffled deck.                                          *)
(***************************************************************************)
NoCycle == [iterable |-> <<>>, length |-> 0, last_index |-> -1]

NewGame(players_list, deck) ==
    [players |-> [name \in Range(players_list) |->
                      SubSeq(deck, (IndexOf(players_list, name) - 1) * HandSize + 1,
                             IndexOf(players_list, name) * HandSize)],
     draw_pile |-> SubSeq(deck, Len(players_list) * HandSize + 1, Len(deck)),
     discard_pile |-> <<>>,
     player_cycle |-> NoCycle,
     alert_queue |-> <<>>,
     layout_alerts |-> <<>>,
     game_exit |-> FALSE,
     clock |-> 0,
     pc |-> "new",
     current_player |-> NoPlayer,
     draw_count |-> 0,
     running |-> FALSE,
     rejections |-> 0,
     turn_log |-> <<>>,
     error |-> "none",
     returned |-> "none",
     player_names |-> players_list,
     call |-> NoCall]

(***************************************************************************)
(* Outcomes of random.shuffle(deck).  A shuffled deck is given by the      *)
(* first cards of every hand and the top of the draw pile; the other       *)
(* places are filled with the rest of the deck in a fixed order.           *)
(***************************************************************************)
RECURSIVE Without(_, _)
Without(s, cards) ==
    IF Len(cards) = 0 THEN s
    ELSE Without(Removed(s, Head(cards)), Tail(cards))

RECURSIVE Flatten(_)
Flatten(ss) == IF Len(ss) = 0 THEN <<>> ELSE Head(ss) \o Flatten(Tail(ss))

\* the deck with the wild cards moved to the end
Base == SubSeq(build_deck, 9, Len(build_deck)) \o SubSeq(build_deck, 1, 8)

RECURSIVE FillHands(_, _)
FillHands(firsts, rest) ==
    IF Len(firsts) = 0 THEN rest
    ELSE LET need == HandSize - Len(Head(firsts))
         IN  Head(firsts) \o SubSeq(rest, 1, need)
             \o FillHands(Tail(firsts), SubSeq(rest, need + 1, Len(rest)))

ShuffledDeck(firsts, top) ==
    LET rest == Without(Base, Flatten(firsts) \o top)
        need == Len(firsts) * HandSize - Len(Flatten(firsts))
    IN  FillHands(firsts, SubSeq(rest, 1, need))
        \o top \o SubSeq(rest, need + 1, Len(rest))

(***************************************************************************)
(* Bounds of the exploration                                               *)
(***************************************************************************)
\* turns explored from an initial state
MaxTurns == 4

\* answers rejected from an initial state
MaxRejects == 1

\* the places of the hand a player picks a card from, besides the last one
\* (the card just drawn) and the draw / pass item
FirstPlaces == {1, 2}

(***************************************************************************)
(* Inputs of a step: the answer to the card prompt (0 stands for the last  *)
(* item, draw or pass; for the computer the index random.choice takes),    *)
(* the color answered or picked at random, the outcome of random.shuffle.  *)
(***************************************************************************)
Input(ans, color, shuffle) == [ans |-> ans, color |-> color, shuffle |-> shuffle]

Answer(S, in) ==
    IF in.ans = 0 THEN Len(S.players[S.current_player]) + 1 ELSE in.ans

\* the step of the main loop taken from S on input in
Step(S, in) ==
    CASE S.pc = "new" -> StartPlayOn(S)
      [] S.pc = "turn" -> BeginTurnOn(S)
      [] S.pc = "computer" -> ComputerMoveOn(S, in.ans, in.color, in.shuffle)
      [] S.pc = "prompt" -> HumanMoveOn(S, Answer(S, in), in.color, in.shuffle)
      [] OTHER -> S

ReadsInput(S) == S.pc \in {"computer", "prompt"}

\* the game after the inputs of script have been answered
RECURSIVE Run(_, _)
Run(S, script) ==
    IF S.pc \in {"finished", "hung", "crashed"} THEN S
    ELSE IF ReadsInput(S)
         THEN IF Len(script) = 0 THEN S
              ELSE Run(Step(S, Head(script)), Tail(script))
    ELSE IF Len(script) = 0 THEN S
    ELSE Run(Step(S, Input(0, RED, "keep")), script)

\* Run, the script taken in halves
RECURSIVE RunAll(_, _)
RunAll(S, script) ==
    IF Len(script) <= 4 THEN Run(S, script)
    ELSE LET half == RunAll(S, SubSeq(script, 1, Len(script) \div 2))
         IN  IF half.pc \in {"finished", "hung", "crashed"} THEN half
             ELSE RunAll(half, SubSeq(script, Len(script) \div 2 + 1,
                                      Len(script)))

\* n turns in which the player draws a card and passes
DrawPass(n) == [i \in 1..(2 * n) |-> Input(0, RED, "keep")]

\* n rounds of two players: the first plays the first card of the hand, the
\* second draws and passes
PlayFirst(n) ==
    [i \in 1..(3 * n) |-> IF i % 3 = 1 THEN Input(1, RED, "keep")
                          ELSE Input(0, RED, "keep")]

(***************************************************************************)
(* The games explored: the shuffled players, the shuffled deck and the     *)
(* inputs already answered.  Every initial state is the state the program  *)
(* is in after construction and these inputs.                              *)
(***************************************************************************)
Game(players_list, firsts, top, script) ==
    [players_list |-> players_list, deck |-> ShuffledDeck(firsts, top),
     script |-> script]

\* two humans, a fresh game
TwoFresh ==
    Game(<<"player", "player2">>,
         <<<<Card(RED, SKIP), Card(RED, REVERSE)>>,
           <<Card(RED, DRAW_TWO), Card(COLORLESS, WILD_DRAW_FOUR)>>>>,
         <<>>, <<>>)

\* two humans and the computer, a fresh game
ThreeFresh ==
    Game(<<"player", "computer", "player2">>,
         <<<<Card(GREEN, REVERSE), Card(GREEN, SKIP)>>,
           <<Card(COLORLESS, WILD_DRAW_FOUR), Card(GREEN, "7")>>,
           <<Card(GREEN, DRAW_TWO), Card(COLORLESS, WILD)>>>>,
         <<>>, <<>>)

\* four humans; A and B have drawn and passed and C is to move
FourThird ==
    Game(<<"A", "B", "C", "D">>,
         <<<<Card(YELLOW, "1"), Card(YELLOW, SKIP)>>,
           <<Card(YELLOW, "2"), Card(YELLOW, DRAW_TWO)>>,
           <<Card(YELLOW, REVERSE), Card(YELLOW, "3")>>,
           <<Card(YELLOW, "4"), Card(COLORLESS, WILD)>>>>,
         <<>>, DrawPass(2))

\* two humans who have drawn and passed until one card is left to draw
TwoLate ==
    Game(<<"player", "player2">>,
         <<<<Card(RED, DRAW_TWO), Card(RED, SKIP)>>,
           <<Card(RED, "7"), Card(COLORLESS, WILD_DRAW_FOUR)>>>>,
         <<>>, DrawPass(Len(build_deck) - 2 * HandSize - 1))

\* two humans; the first has played five cards and holds two
TwoEnding ==
    Game(<<"player", "player2">>,
         <<<<Card(RED, "1"), Card(RED, "2"), Card(RED, "3"), Card(RED, "4"),
             Card(RED, "5"), Card(RED, SKIP), Card(RED, DRAW_TWO)>>,
           <<Card(GREEN, "7"), Card(COLORLESS, WILD)>>>>,
         <<>>, PlayFirst(5))

Games == {TwoFresh, ThreeFresh, FourThird, TwoLate, TwoEnding}

Started(game) ==
    [RunAll(NewGame(game.players_list, game.deck), game.script)
        EXCEPT !.turn_log = <<>>, !.rejections = 0]

Init == \E game \in Games : IsState(Started(game))

(***************************************************************************)
(* The inputs enumerated at a step                                         *)
(***************************************************************************)
Answers(S) ==
    LET n == Len(S.players[S.current_player])
    IN  {i \in FirstPlaces : i <= n} \cup {n, n + 1}

IsWildAnswer(S, ans) ==
    /\ ans <= Len(S.players[S.current_player])
    /\ S.players[S.current_player][ans].value \in {WILD, WILD_DRAW_FOUR}

\* the answers the inner loop answers with an alert and another prompt
IsRejected(S, ans) == HumanMoveOn(S, ans, RED, "keep").rejections > S.rejections

Picks(S) ==
    IF HasLastCard(S) THEN {1}
    ELSE {i \in FirstPlaces : i <= Len(S.players["computer"])}

\* the color prompt is reached, or a color picked at random, only for a
\* wild card; random.shuffle has one outcome on fewer than two cards
ColorsAsked(S, wild) == IF wild THEN RealColors ELSE {RED}

HoldsWild(S) ==
    \E i \in DOMAIN S.players[S.current_player] :
        S.players[S.current_player][i].value \in {WILD, WILD_DRAW_FOUR}

MayDrawWild(S) ==
    \/ Len(S.draw_pile) > 0 /\ S.draw_pile[1].value \in {WILD, WILD_DRAW_FOUR}
    \/ Len(S.draw_pile) = 0

ShufflesTried(S) ==
    IF Len(S.draw_pile) < 4 /\ Len(S.discard_pile) >= 2 THEN ShuffleKinds
    ELSE {"keep"}

(***************************************************************************)
(* Actions                                                                 *)
(***************************************************************************)
StartPlay ==
    /\ pc = "new"
    /\ Install(StartPlayOn(Cur))

BeginTurn ==
    /\ pc = "turn"
    /\ Len(turn_log) < MaxTurns
    /\ Install(BeginTurnOn(Cur))

ComputerMove ==
    /\ pc = "computer"
    /\ \E pick \in Picks(Cur),
          color \in ColorsAsked(Cur, HoldsWild(Cur) \/ MayDrawWild(Cur)),
          shuffle \in ShufflesTried(Cur) :
           Install(ComputerMoveOn(Cur, pick, color, shuffle))

HumanMove ==
    /\ pc = "prompt"
    /\ \E ans \in Answers(Cur) :
         /\ IsRejected(Cur, ans) => rejections < MaxRejects
         /\ \E color \in ColorsAsked(Cur, IsWildAnswer(Cur, ans)),
            shuffle \in ShufflesTried(Cur) :
              Install(HumanMoveOn(Cur, ans, color, shuffle))

Next == StartPlay \/ BeginTurn \/ ComputerMove \/ HumanMove

Spec == Init /\ [][Next]_vars

(***************************************************************************)
(* play_card called directly on the game object, as a caller of the class  *)
(* may: any player, a card of the hand or one of ProbeCards.               *)
(***************************************************************************)
ProbeCards == {Card(RED, "9"), Card(GREEN, "7"), Card(COLORLESS, WILD)}

PlayCardCall ==
    /\ pc = "turn"
    /\ Len(turn_log) < MaxTurns
    /\ \E name \in Range(player_names) :
         \E card \in ProbeCards \cup {players[name][1]} :
            LET ended == play_card(Cur, name, card, RED, "keep")
            IN  Install(IF Hung(ended) THEN ended
                        ELSE [ended EXCEPT
                                 !.pc = "called",
                                 !.call = [name |-> name, card |-> card]])

NextApi == Next \/ PlayCardCall

SpecApi == Init /\ [][NextApi]_vars

(***************************************************************************)
(* is_card_playable called on a game whose first card has just been        *)
(* played (any card of the deck, a wild one with any color answered), or   *)
(* on a game not yet started, with any card of the deck.                   *)
(***************************************************************************)
DeckCards == Range(build_deck)

FirstPlayed(card, color) ==
    Game(<<"player", "player2">>, <<<<card>>, <<>>>>, <<>>,
         <<Input(1, color, "keep")>>)

NotStarted == Game(<<"player", "player2">>, <<>>, <<>>, <<>>)

LegalGames ==
    {NotStarted}
    \cup {FirstPlayed(card, RED) : card \in DeckCards}
    \cup {FirstPlayed(Card(COLORLESS, WILD_DRAW_FOUR), color) : color \in RealColors}

InitLegal == \E game \in LegalGames : IsState(Started(game))

IsCardPlayableCall ==
    /\ pc \in {"new", "turn"}
    /\ \E card \in DeckCards :
         Install([Cur EXCEPT
                     !.pc = "asked",
                     !.returned = Bool(is_card_playable(Cur, card)),
                     !.call = [name |-> NoPlayer, card |-> card]])

NextLegal == IsCardPlayableCall

SpecLegal == InitLegal /\ [][NextLegal]_vars

(***************************************************************************)
(* The two threads at the alert queue.  The main thread is inside play():  *)
(* it calls alert() any number of times and leaves by the win, by an       *)
(* exception of the game or by KeyboardInterrupt, which may come at any    *)
(* point.  The other thread runs purge_old_alerts.  Every step is one      *)
(* statement, or one item of the for loop, so that the threads interleave  *)
(* as the interpreter lets them.  The clock advances by Tick at any time;  *)
(* time.sleep(1) is a step of its own.                                     *)
(***************************************************************************)
\* the clock stops here
MaxClock == 62

\* alerts in the queue when one more is pushed
MaxQueue == 2

\* seconds by which the clock advances in one step
TickSizes == {29, 30, 31}

\* the age after which an alert is removed ((now - created_time).seconds > 30)
TTL == 30

\* timedelta.seconds: the seconds of the difference, its days left out
SecondsPerDay == 86400

Seconds(delta) == delta % SecondsPerDay

AlertTexts == {<<"UNO", "player">>}

gameVars == <<players, draw_pile, discard_pile, player_cycle, current_player,
          draw_count, rejections, turn_log, returned, player_names, call,
              cycle_call>>

InitSweeper ==
    IsState([NewGame(TwoFresh.players_list, TwoFresh.deck) EXCEPT !.pc = "play"])

\* alert(): now = datetime.now()
AlertCall ==
    /\ pc = "play"
    /\ Len(alert_queue) <= MaxQueue
    /\ \E text \in AlertTexts :
         pending' = [text |-> text, created_time |-> clock]
    /\ pc' = "alert_lock"
    /\ UNCHANGED <<gameVars, alert_queue, layout_alerts, game_exit, clock, running,
                   error, lock, sweeper_pc, sweep, renderable>>

\* alert(): with self.__alert_lock
AlertAcquire ==
    /\ pc = "alert_lock"
    /\ lock = "free"
    /\ lock' = "main"
    /\ pc' = "alert_append"
    /\ UNCHANGED <<gameVars, alert_queue, layout_alerts, game_exit, clock, running,
                   error, sweeper_pc, sweep, pending, renderable>>

\* alert(): self.__alert_queue.append(AlertItem(text, now))
AlertAppend ==
    /\ pc = "alert_append"
    /\ alert_queue' = Append(alert_queue, pending)
    /\ pc' = "alert_render"
    /\ UNCHANGED <<gameVars, layout_alerts, game_exit, clock, running, error,
                   lock, sweeper_pc, sweep, pending, renderable>>

\* alert(): renderable = ..., and the end of the with block
AlertRender ==
    /\ pc = "alert_render"
    /\ renderable' = [i \in 1..Len(LastItems(alert_queue, ShownAlerts)) |->
                         LastItems(alert_queue, ShownAlerts)[i].text]
    /\ lock' = "free"
    /\ pc' = "alert_update"
    /\ UNCHANGED <<gameVars, alert_queue, layout_alerts, game_exit, clock, running,
                   error, sweeper_pc, sweep, pending>>

\* alert(): self.layout["alerts"].update(renderable)
AlertUpdate ==
    /\ pc = "alert_update"
    /\ layout_alerts' = renderable
    /\ pc' = "play"
    /\ UNCHANGED <<gameVars, alert_queue, game_exit, clock, running, error,
                   lock, sweeper_pc, sweep, pending, renderable>>

\* play(): running = False; self._game_exit = True
MainWin ==
    /\ pc = "play"
    /\ running' = FALSE
    /\ game_exit' = TRUE
    /\ pc' = "finished"
    /\ UNCHANGED <<gameVars, alert_queue, layout_alerts, clock, error,
                   lock, sweeper_pc, sweep, pending, renderable>>

\* an exception leaves play(): one of the game anywhere outside alert(),
\* KeyboardInterrupt anywhere; the with block gives the lock back
MainRaise ==
    /\ pc \in {"play", "alert_lock", "alert_append", "alert_render",
               "alert_update"}
    /\ \E e \in (IF pc = "play" THEN {"GameplayError", "ValueError"} ELSE {})
                 \cup {"KeyboardInterrupt"} : error' = e
    /\ lock' = IF lock = "main" THEN "free" ELSE lock
    /\ pc' = "raised"
    /\ UNCHANGED <<gameVars, alert_queue, layout_alerts, game_exit, clock, running,
                   sweeper_pc, sweep, pending, renderable>>

\* __main__: the except clauses and the finally clause
MainFinally ==
    /\ pc = "raised"
    /\ pc' = Raised(Cur).pc
    /\ game_exit' = Raised(Cur).game_exit
    /\ UNCHANGED <<gameVars, alert_queue, layout_alerts, clock, running, error,
                   lock, sweeper_pc, sweep, pending, renderable>>

\* purge_old_alerts: if self._game_exit: break; now = datetime.now()
SweeperCheck ==
    /\ sweeper_pc = "check"
    /\ IF game_exit
       THEN sweeper_pc' = "done" /\ sweep' = sweep
       ELSE sweeper_pc' = "lock" /\ sweep' = [now |-> clock, index |-> 0]
    /\ UNCHANGED <<gameVars, alert_queue, layout_alerts, game_exit, clock, pc,
                   running, error, lock, pending, renderable>>

\* mutant of SweeperAcquire: the pass made without the lock
SweeperAcquireUnlocked ==
    /\ sweeper_pc = "lock"
    /\ sweeper_pc' = "pass"
    /\ UNCHANGED <<gameVars, alert_queue, layout_alerts, game_exit, clock, pc,
                   running, error, lock, sweep, pending, renderable>>

\* purge_old_alerts: with self.__alert_lock
SweeperAcquire ==
    /\ sweeper_pc = "lock"
    /\ lock = "free"
    /\ lock' = "sweeper"
    /\ sweeper_pc' = "pass"
    /\ UNCHANGED <<gameVars, alert_queue, layout_alerts, game_exit, clock, pc,
                   running, error, sweep, pending, renderable>>

\* the test of the generator old_items
IsOld(a, now) == Seconds(now - a.created_time) > TTL

\* purge_old_alerts: one item of the list iterator under the generator
\* old_items; an old one is yielded to the for loop, which removes it from
\* the list the iterator is walking
SweeperItem ==
    /\ sweeper_pc = "pass"
    /\ sweep.index < Len(alert_queue)
    /\ LET a == alert_queue[sweep.index + 1]
       IN  alert_queue' = IF IsOld(a, sweep.now) THEN Removed(alert_queue, a)
                          ELSE alert_queue
    /\ sweep' = [sweep EXCEPT !.index = @ + 1]
    /\ UNCHANGED <<gameVars, layout_alerts, game_exit, clock, pc, running, error,
                   lock, sweeper_pc, pending, renderable>>

\* purge_old_alerts: the iterator is exhausted, the with block ends
SweeperRelease ==
    /\ sweeper_pc = "pass"
    /\ sweep.index >= Len(alert_queue)
    /\ lock' = IF lock = "sweeper" THEN "free" ELSE lock
    /\ sweeper_pc' = "sleep"
    /\ UNCHANGED <<gameVars, alert_queue, layout_alerts, game_exit, clock, pc,
                   running, error, sweep, pending, renderable>>

\* purge_old_alerts: time.sleep(1) returns
SweeperWake ==
    /\ sweeper_pc = "sleep"
    /\ sweeper_pc' = "check"
    /\ UNCHANGED <<gameVars, alert_queue, layout_alerts, game_exit, clock, pc,
                   running, error, lock, sweep, pending, renderable>>

\* time passes
Tick ==
    /\ \E d \in TickSizes :
         /\ clock + d <= MaxClock
         /\ clock' = clock + d
    /\ UNCHANGED <<gameVars, alert_queue, layout_alerts, game_exit, pc, running,
                   error, lock, sweeper_pc, sweep, pending, renderable>>

MainNext ==
    \/ AlertCall \/ AlertAcquire \/ AlertAppend \/ AlertRender \/ AlertUpdate
    \/ MainWin \/ MainRaise \/ MainFinally

SweeperNext ==
    \/ SweeperCheck \/ SweeperAcquire \/ SweeperItem \/ SweeperRelease
    \/ SweeperWake

NextSweeper == MainNext \/ SweeperNext \/ Tick

\* the thread of purge_old_alerts is scheduled again and again, and so is
\* the main thread on its way out of play()
SpecSweeper ==
    /\ InitSweeper
    /\ [][NextSweeper]_vars
    /\ WF_vars(SweeperNext)
    /\ WF_vars(AlertAppend \/ AlertRender \/ MainFinally)

(***************************************************************************)
(* The cycle object called directly: next(save_last) and cycle[item] on a  *)
(* freshly constructed cycle of one to four items.                         *)
(***************************************************************************)
\* calls of next that move the cursor
MaxAdvances == 6

\* the indexes asked of __getitem__ are within this distance of 0
MaxIndex == 6

Items == <<"A", "B", "C", "D">>

InitCycle ==
    \E n \in 1..Len(Items) :
        IsState([NewGame(TwoFresh.players_list, TwoFresh.deck) EXCEPT
                    !.player_cycle = cycle(SubSeq(Items, 1, n))])

NextCall ==
    /\ cycle_call.consumed < MaxAdvances
    /\ \E save_last \in BOOLEAN :
         /\ player_cycle' = NextCycle(player_cycle, save_last)
         /\ cycle_call' = [op |-> "next", arg |-> Bool(save_last),
                           result |-> NextItem(player_cycle),
                           consumed |-> cycle_call.consumed
                                        + (IF save_last THEN 1 ELSE 0)]
    /\ UNCHANGED <<players, draw_pile, discard_pile, alert_queue,
                   layout_alerts, game_exit, clock, pc, current_player,
                   draw_count, running, rejections, turn_log, error, returned,
                   player_names, call, threads>>

GetItemCall ==
    /\ \E item \in (0 - MaxIndex)..MaxIndex :
         cycle_call' = [op |-> "getitem", arg |-> item,
                        result |-> GetItem(player_cycle, item),
                        consumed |-> cycle_call.consumed]
    /\ UNCHANGED <<players, draw_pile, discard_pile, player_cycle, alert_queue,
                   layout_alerts, game_exit, clock, pc, current_player,
                   draw_count, running, rejections, turn_log, error, returned,
                   player_names, call, threads>>

NextCycleCalls == NextCall \/ GetItemCall

SpecCycle == InitCycle /\ [][NextCycleCalls]_vars

(***************************************************************************)
(* Games of a human player and the computer, fresh.  The hands are filled  *)
(* with blue cards, so that against a red or yellow active card the        *)
(* computer has a match, only a wild card, or nothing to play and a card   *)
(* to draw that is playable or not.                                        *)
(***************************************************************************)
\* the computer has nothing to play and draws RED 7
ComputerDraws ==
    Game(<<"player", "computer">>,
         <<<<Card(RED, "9"), Card(YELLOW, "8")>>, <<>>>>,
         <<Card(RED, "7")>>, <<>>)

\* the computer holds two matches of RED 5, by value and by color, and a WILD
ComputerMatches ==
    Game(<<"player", "computer">>,
         <<<<Card(RED, "5"), Card(YELLOW, "9")>>,
           <<Card(GREEN, "5"), Card(COLORLESS, WILD), Card(RED, "1")>>>>,
         <<>>, <<>>)

\* the computer holds a WILD_DRAW_FOUR and cards of one color
ComputerWild ==
    Game(<<"computer", "player">>,
         <<<<Card(COLORLESS, WILD_DRAW_FOUR)>>,
           <<Card(YELLOW, "9"), Card(RED, "5")>>>>,
         <<Card(YELLOW, "3")>>, DrawPass(0))

(***************************************************************************)
(* A late game of two humans and the computer.  player plays its           *)
(* WILD_DRAW_FOUR and sets RED, then the humans draw and pass and the      *)
(* computer, holding blue and yellow cards only, draws a card it cannot    *)
(* play, turn after turn, until three cards are left to draw; then player  *)
(* draws and plays RED 5, the computer draws, and player2 plays GREEN 5.   *)
(***************************************************************************)
\* the cards the computer can play on none of RED WILD_DRAW_FOUR, RED 5, GREEN 5
Calm ==
    SelectSeq(build_deck,
              LAMBDA c : c.color \in {BLUE, YELLOW} /\ c.value # "5")

DrainRounds == (Len(build_deck) - 3 * HandSize - 6) \div 3

\* the cards of the computer: its hand, 4 for the WILD_DRAW_FOUR, one a
\* round, and the last two of the draw pile
CalmDealt == SubSeq(Calm, 1, HandSize + 4 + DrainRounds + 2)

LatePlayed ==
    <<Card(COLORLESS, WILD_DRAW_FOUR), Card(RED, "5"), Card(GREEN, DRAW_TWO),
      Card(GREEN, "5")>>

\* the cards of the humans
Crowd == Without(build_deck, CalmDealt \o LatePlayed)

LateDeck ==
    SubSeq(LatePlayed, 1, 3) \o SubSeq(Crowd, 1, 4)
        \o SubSeq(CalmDealt, 1, HandSize)
        \o SubSeq(LatePlayed, 4, 4) \o SubSeq(Crowd, 5, 10)
        \o SubSeq(CalmDealt, HandSize + 1, HandSize + 4)
        \o Flatten([i \in 1..DrainRounds |->
                        <<CalmDealt[HandSize + 4 + i],
                          Crowd[9 + 2 * i], Crowd[10 + 2 * i]>>])
        \o SubSeq(CalmDealt, HandSize + 4 + DrainRounds + 1, Len(CalmDealt))

LateScript ==
    <<Input(1, RED, "keep")>>
        \o Flatten([i \in 1..(DrainRounds - 1) |->
                        <<Input(1, RED, "keep")>> \o DrawPass(2)])
        \o <<Input(1, RED, "keep")>> \o DrawPass(1)
        \o <<Input(0, RED, "keep"), Input(1, RED, "keep")>>
        \o <<Input(1, RED, "keep"), Input(1, RED, "keep")>>

ComputerLate ==
    [players_list |-> <<"player", "computer", "player2">>,
     deck |-> LateDeck, script |-> LateScript]

ComputerGames ==
    {ComputerDraws, ComputerMatches, ComputerWild, ThreeFresh, ComputerLate}

InitComputer == \E g \in ComputerGames : IsState(Started(g))

SpecComputer == InitComputer /\ [][Next]_vars

(***************************************************************************)
(* Vocabulary of the properties                                            *)
(***************************************************************************)
Last(s) == s[Len(s)]

RECURSIVE SumOver(_, _)
SumOver(f, S) ==
    IF S = {} THEN 0
    ELSE LET x == CHOOSE x \in S : TRUE
         IN  Len(f[x]) + SumOver(f, S \ {x})

\* all the cards of the game
CardCount == Len(draw_pile) + Len(discard_pile) + SumOver(players, DOMAIN players)

\* two lists hold the same cards, as many times each
SameCards(a, b) == \A c \in Range(a) \cup Range(b) : Count(a, c) = Count(b, c)

TurnNo == Len(turn_log)

\* the player k places after name in order (before it, for a negative k)
Ahead(order, name, k) ==
    order[((IndexOf(order, name) - 1 + k) % Len(order)) + 1]

\* this step plays a card of the given value
PlaysNow(value) ==
    /\ TurnNo > 0
    /\ Len(turn_log') = TurnNo
    /\ turn_log[TurnNo].played = NoCard
    /\ turn_log'[TurnNo].played.value = value

\* the cards drawn by choice in this step
DrawnNow == turn_log'[TurnNo].drawn - turn_log[TurnNo].drawn

\* this step is the top of the while loop: a turn starts
BeginsTurn == Len(turn_log') = TurnNo + 1

\* the step returns: it does not stay in draw_card for ever
Returns == pc' # "hung"

\* this step pushes an alert with the given text
Pushes(text) ==
    \E k \in (Len(alert_queue) + 1)..Len(alert_queue') :
        alert_queue'[k].text = text

\* the main thread is between two steps of a running game
Playing == pc \in {"turn", "prompt", "computer"}

(***************************************************************************)
(* C1.  Card conservation: in every reachable state the draw pile, the     *)
(* discard pile and the hands hold 108 cards together.                     *)
(***************************************************************************)
C1_CardConservation == pc # "hung" => CardCount = 108

RecycleDraw ==
    /\ pc = "prompt"
    /\ draw_count' = draw_count + 1
    /\ Len(draw_pile) = 0
    /\ Len(discard_pile) >= 2

(***************************************************************************)
(* C2.  Recycle: a draw with an empty draw pile and at least 2 discards    *)
(* leaves the discard pile with exactly the card that was active, and the  *)
(* cards that were below it are the new draw pile and the card drawn.      *)
(***************************************************************************)
C2_Recycle ==
    [][RecycleDraw =>
          /\ discard_pile' = <<Last(discard_pile)>>
          /\ SameCards(AllButLast(discard_pile),
                       draw_pile' \o <<Last(players'[current_player])>>)]_vars

WildBound(pile) ==
    (Len(pile) > 0 /\ Last(pile).value \in {WILD, WILD_DRAW_FOUR})
        => Last(pile).color \in RealColors

(***************************************************************************)
(* C3.  Wild color binding: after a step that plays a WILD or a            *)
(* WILD_DRAW_FOUR and returns, the active card has the color RED, GREEN,   *)
(* BLUE or YELLOW, never COLORLESS, and the step has pushed the alert      *)
(* naming the color.                                                       *)
(***************************************************************************)
C3_WildColorBound ==
    [][((PlaysNow(WILD) \/ PlaysNow(WILD_DRAW_FOUR)) /\ Returns) =>
          /\ WildBound(discard_pile')
          /\ \E k \in (Len(alert_queue) + 1)..Len(alert_queue') :
                Last(alert_queue'[k].text) = ColorName(Last(discard_pile').color)]_vars

(***************************************************************************)
(* C4.  REVERSE with exactly 2 players: the reversal alert is pushed and   *)
(* the next turn is taken by the other player.                             *)
(***************************************************************************)
C4_ReverseTwoPlayers ==
    [][(PlaysNow(REVERSE) /\ Cardinality(DOMAIN players) = 2) =>
          /\ Pushes(<<"Player cycle reversed.">>)
          /\ NextItem(player_cycle') # current_player]_vars

KeepsOrder(i) == turn_log[i].played.value \notin {SKIP, REVERSE}

(***************************************************************************)
(* C5.  REVERSE with more than 2 players: the k-th turn after a REVERSE    *)
(* played by P goes to the player k places before P in the order of that   *)
(* turn (no SKIP or REVERSE being played in between), so the player who    *)
(* preceded P is next and P acts again after all the others.               *)
(***************************************************************************)
C5_ReverseOrder ==
    \A i \in 1..TurnNo :
        (turn_log[i].played.value = REVERSE /\ Len(turn_log[i].order) > 2) =>
            \A k \in 1..Len(turn_log[i].order) :
                (i + k <= TurnNo /\ \A j \in (i + 1)..(i + k - 1) : KeepsOrder(j))
                    => turn_log[i + k].name =
                           Ahead(turn_log[i].order, turn_log[i].name, 0 - k)

\* C playing REVERSE in the cycle [A, B, C, D], then B, A and D
C5_Witness ==
    /\ TurnNo = 4
    /\ turn_log[1].played.value = REVERSE
    /\ turn_log[1].order = <<"A", "B", "C", "D">>
    /\ <<turn_log[1].name, turn_log[2].name, turn_log[3].name,
         turn_log[4].name>> = <<"C", "B", "A", "D">>

(***************************************************************************)
(* C6.  SKIP: the step that plays it leaves the hand of the player after   *)
(* the acting one as it is and pushes the alert naming that player, and    *)
(* the turn after a SKIP goes to the player two places after the acting    *)
(* one (with 2 players, the acting one again).                             *)
(***************************************************************************)
C6_Skip ==
    [][/\ PlaysNow(SKIP) =>
             LET skipped == NextItem(player_cycle)
             IN  /\ players'[skipped] = players[skipped]
                 /\ Pushes(<<"chance is skipped", skipped>>)
       /\ (BeginsTurn /\ TurnNo > 0 /\ turn_log[TurnNo].played.value = SKIP) =>
             current_player' =
                 Ahead(turn_log[TurnNo].order, turn_log[TurnNo].name, 2)]_vars

\* a turn started after a SKIP, in a game of two and of three players
C6_Witness ==
    /\ TurnNo > 1
    /\ turn_log[TurnNo - 1].played.value = SKIP
    /\ Len(turn_log[TurnNo].order) = 3
    /\ turn_log[TurnNo].name # turn_log[TurnNo - 1].name

C6_WitnessTwo ==
    /\ TurnNo > 1
    /\ turn_log[TurnNo - 1].played.value = SKIP
    /\ Len(turn_log[TurnNo].order) = 2
    /\ turn_log[TurnNo].name = turn_log[TurnNo - 1].name

Penalty(n) ==
    LET next_player == NextItem(player_cycle)
    IN  /\ Len(players'[next_player]) = Len(players[next_player]) + n
        /\ \A name \in DOMAIN players \ {next_player, current_player} :
               players'[name] = players[name]
        /\ Len(players'[current_player]) = Len(players[current_player]) + DrawnNow - 1
        /\ Len(draw_pile) >= n + DrawnNow =>
               Len(draw_pile') = Len(draw_pile) - n - DrawnNow
        /\ player_cycle' = player_cycle

AfterPenalty ==
    (BeginsTurn /\ TurnNo > 0
     /\ turn_log[TurnNo].played.value \in {DRAW_TWO, WILD_DRAW_FOUR}) =>
        current_player' = Ahead(turn_log[TurnNo].order, turn_log[TurnNo].name, 1)

(***************************************************************************)
(* C7.  Draw penalties: a step that plays a DRAW_TWO (a WILD_DRAW_FOUR)    *)
(* and returns adds exactly 2 (4) cards to the hand of the player after    *)
(* the acting one, takes them from the draw pile unless the pile is        *)
(* recycled, adds no card to another hand and leaves the cycle as it is;   *)
(* the turn after it goes to that player.                                  *)
(***************************************************************************)
C7_DrawPenalties ==
    [][/\ (PlaysNow(DRAW_TWO) /\ Returns) => Penalty(2)
       /\ (PlaysNow(WILD_DRAW_FOUR) /\ Returns) => Penalty(4)
       /\ AfterPenalty]_vars

\* the penalized player is at the prompt with the cards of the penalty
C7_Witness ==
    /\ TurnNo > 1
    /\ turn_log[TurnNo - 1].played.value = WILD_DRAW_FOUR
    /\ pc = "prompt"
    /\ Len(players[current_player]) = HandSize + 4

\* a penalty drawn through a recycle
C7_WitnessRecycle ==
    /\ TurnNo > 0
    /\ turn_log[TurnNo].played.value = DRAW_TWO
    /\ pc = "turn"
    /\ Len(draw_pile) = 0
    /\ Len(discard_pile) > 0

NoEmptyHand == \A name \in DOMAIN players : Len(players[name]) > 0

WinDetected ==
    /\ pc = "finished" =>
           /\ Len(players[current_player]) = 0
           /\ \A name \in DOMAIN players \ {current_player} :
                  Len(players[name]) > 0
           /\ ~running
           /\ game_exit
           /\ Last(alert_queue).text = <<"UNO-finish", current_player>>
    /\ Playing => NoEmptyHand /\ running

(***************************************************************************)
(* C8.  Win detection: the game is finished exactly when the acting player *)
(* ends a turn with an empty hand; the flags are then set, no step         *)
(* follows, and while the game goes on no hand is empty.                   *)
(***************************************************************************)
C8_WinDetection == []WinDetected /\ [][pc # "finished"]_vars

C8_Witness ==
    /\ pc = "finished"
    /\ current_player = "player"
    /\ turn_log[TurnNo].played.value = DRAW_TWO

IsHuman(name) == name # "computer"

Ended(i) == i < TurnNo \/ pc \in {"turn", "finished"}

HumanProtocol ==
    \A i \in 1..TurnNo :
        IsHuman(turn_log[i].name) =>
            /\ turn_log[i].drawn <= 1
            /\ turn_log[i].passed =>
                   turn_log[i].drawn = 1 /\ turn_log[i].played = NoCard
            /\ Ended(i) => turn_log[i].played # NoCard \/ turn_log[i].passed

(***************************************************************************)
(* C9.  Human turn protocol: in a turn of a human player at most one card  *)
(* is drawn by choice; the turn ends only by playing a card that is        *)
(* playable or by a pass after exactly one draw, and a pass plays no card. *)
(***************************************************************************)
C9_HumanProtocol ==
    []HumanProtocol
    /\ [][(pc = "prompt" /\ TurnNo > 0 /\ Len(turn_log') = TurnNo
           /\ turn_log'[TurnNo].played # turn_log[TurnNo].played) =>
              /\ is_card_playable(Cur, turn_log'[TurnNo].played)
              /\ IndexOf(players[current_player], turn_log'[TurnNo].played) # 0
          ]_vars

\* a turn ended by a pass after one draw
C9_Witness ==
    /\ TurnNo > 0
    /\ pc = "turn"
    /\ IsHuman(turn_log[TurnNo].name)
    /\ turn_log[TurnNo].passed
    /\ turn_log[TurnNo].drawn = 1

CalledNow == call' # NoCall /\ call = NoCall

MustReject ==
    \/ ~is_card_playable(Cur, call'.card)
    \/ IndexOf(players[call'.name], call'.card) = 0

(***************************************************************************)
(* C10.  Rejected plays: play_card called with a card that is not playable *)
(* or that the player does not hold ends with GameplayError and leaves the *)
(* hands, the piles and the cycle as they were.                            *)
(***************************************************************************)
C10_RejectedPlays ==
    [][(CalledNow /\ MustReject) =>
          /\ error' = "GameplayError"
          /\ UNCHANGED <<players, draw_pile, discard_pile, player_cycle,
                         current_player>>]_vars

\* the draw pile is empty and a refill from the discard pile yields no card
Exhausted == Len(draw_pile) = 0 /\ Len(discard_pile) <= 1

\* this step is a human player's choice of "draw" with the piles exhausted
ExhaustedDraw ==
    /\ pc = "prompt"
    /\ draw_count' = draw_count + 1
    /\ Exhausted

(***************************************************************************)
(* C11.  Pile exhaustion is fatal: a draw attempted with an empty draw     *)
(* pile and at most one discard ends by raising the error PileExhausted,   *)
(* which ends play(); draw_card does not loop for ever.                    *)
(***************************************************************************)
C11_PileExhaustedFatal ==
    [][ExhaustedDraw =>
          /\ pc' = "crashed"
          /\ error' = "PileExhausted"]_vars

\* the answer the rule gives for a card against the discard pile
Legal(card) ==
    IF Len(discard_pile) = 0 THEN TRUE
    ELSE IF card.value \in {WILD, WILD_DRAW_FOUR} THEN TRUE
    ELSE (card.color = Last(discard_pile).color) \/ (card.value = Last(discard_pile).value)

(***************************************************************************)
(* C12.  Legality: is_card_playable answers True on an empty discard pile; *)
(* otherwise True for a WILD or a WILD_DRAW_FOUR, and for another card     *)
(* exactly when its color or its value is that of the active card.         *)
(***************************************************************************)
C12_Legality ==
    pc = "asked" => returned = Bool(Legal(call.card))

\* a card refused on an active card that has no color, and a card accepted
\* by its value alone
C12_Witness ==
    /\ pc = "asked"
    /\ Len(discard_pile) > 0
    /\ call.card.value = Last(discard_pile).value
    /\ call.card.color # Last(discard_pile).color
    /\ call.card.value \notin {WILD, WILD_DRAW_FOUR}
    /\ returned = "True"

C12_WitnessColorless ==
    /\ pc = "asked"
    /\ Len(discard_pile) > 0
    /\ Last(discard_pile).color = COLORLESS
    /\ returned = "False"

\* the turn loop has ended: by the win, or by an exception
LoopEnded == pc \in {"finished", "raised", "crashed"}

(***************************************************************************)
(* C13.  Teardown of the purging thread: when the main thread has left     *)
(* play(), by the win or by an exception, _game_exit is set by the time    *)
(* the program is through; once the flag is set the purging thread starts  *)
(* no further pass, and it terminates.                                     *)
(***************************************************************************)
C13_Teardown ==
    /\ [](pc \in {"finished", "crashed"} => game_exit)
    /\ [][(game_exit /\ sweeper_pc = "check") =>
              sweeper_pc' \in {"check", "done"}]_vars
    /\ LoopEnded ~> (sweeper_pc = "done")

\* the thread has ended after a KeyboardInterrupt that came inside alert()
C13_Witness ==
    /\ sweeper_pc = "done"
    /\ pc = "crashed"
    /\ error = "KeyboardInterrupt"
    /\ pending # NoAlert

\* the age of an alert at the time a pass of the purging thread reads
Age(a) == sweep.now - a.created_time

\* this step ends a pass of the purging thread
PassEnds == sweeper_pc = "pass" /\ sweeper_pc' = "sleep"

(***************************************************************************)
(* C14.  Notification expiry: a pass of the purging thread takes out of    *)
(* the queue no alert of an age of 30 seconds or less, and when the pass   *)
(* ends no alert older than 30 seconds is left in the queue: one pushed at *)
(* T is there at T+29 and gone after a pass made at T+31 or later.         *)
(***************************************************************************)
C14_Expiry ==
    [][/\ \A a \in Range(alert_queue) :
             Count(alert_queue', a) < Count(alert_queue, a) => Age(a) > TTL
       /\ PassEnds => \A a \in Range(alert_queue') : Age(a) <= TTL]_vars

\* a thread is at a statement that reads or writes __alert_queue
MainInQueue == pc \in {"alert_append", "alert_render"}

SweeperInQueue == sweeper_pc = "pass"

Exclusion ==
    /\ MainInQueue => lock = "main"
    /\ SweeperInQueue => lock = "sweeper"
    /\ ~(MainInQueue /\ SweeperInQueue)

(***************************************************************************)
(* C15.  Mutual exclusion on the alert queue: a thread at a statement that *)
(* pushes to the queue, reads it for the renderable or purges it holds the *)
(* one lock, so the two threads are never at such statements together, and *)
(* every step that changes the queue or reads it into the renderable is    *)
(* taken by the holder of the lock.                                        *)
(***************************************************************************)
C15_MutualExclusion ==
    /\ []Exclusion
    /\ [][(alert_queue' # alert_queue \/ renderable' # renderable) =>
              \/ lock = "main" /\ MainInQueue /\ sweeper_pc' = sweeper_pc
              \/ lock = "sweeper" /\ SweeperInQueue /\ pc' = pc]_vars

\* the purging thread waits for the lock while the main thread, inside
\* alert(), has pushed and not yet read
C15_Witness ==
    /\ pc = "alert_render"
    /\ sweeper_pc = "lock"
    /\ Len(alert_queue) > 1

\* the item at a place of the list counted from 0, modulo its length
ItemAt(place) ==
    player_cycle.iterable[(place % Len(player_cycle.iterable)) + 1]

(***************************************************************************)
(* C16.  Turn cycle advance: on a fresh cycle of L items the k-th call of  *)
(* next() returns the item at index (k-1) mod L, the first one setting the *)
(* cursor to 0; next(False) returns the item the next call of next() will  *)
(* return and leaves the cursor as it is.                                  *)
(***************************************************************************)
C16_CycleAdvance ==
    /\ [](cycle_call.op = "next" =>
             cycle_call.result =
                 ItemAt(IF cycle_call.arg = "True" THEN cycle_call.consumed - 1
                        ELSE cycle_call.consumed))
    /\ [][cycle_call'.op = "next" =>
              /\ cycle_call'.arg = "False" => player_cycle' = player_cycle
              /\ (cycle_call'.arg = "True" /\ cycle_call.consumed = 0) =>
                     player_cycle'.last_index = 0
              /\ cycle_call'.arg = "True" =>
                     player_cycle'.iterable = player_cycle.iterable]_vars

\* the fifth advance on [A, B, C, D] has come round to A
C16_Witness ==
    /\ player_cycle.iterable = Items
    /\ cycle_call.op = "next"
    /\ cycle_call.arg = "True"
    /\ cycle_call.consumed = 5
    /\ cycle_call.result = "A"

\* three advances on [A, B, C, D] yield C, and a next(False) then yields D
C16_WitnessPeek ==
    /\ player_cycle.iterable = Items
    /\ cycle_call = [op |-> "next", arg |-> "False", result |-> "D",
                     consumed |-> 3]

\* the cursor has been moved by at least one call of next
Moved == player_cycle.last_index >= 0

\* C17 as first stated: cycle[n] is the item n places after the cursor
C17_PeekAhead ==
    (cycle_call.op = "getitem" /\ Moved) =>
        cycle_call.result = ItemAt(player_cycle.last_index + cycle_call.arg)

(***************************************************************************)
(* C17.  Turn cycle peek, amended: for every position of the cursor and    *)
(* every integer n, cycle[n] returns the item at index n modulo the length *)
(* of the list, wherever the cursor is, and leaves the cursor as it is.    *)
(***************************************************************************)
C17_PeekIndex ==
    /\ [](cycle_call.op = "getitem" => cycle_call.result = ItemAt(cycle_call.arg))
    /\ [][cycle_call'.op = "getitem" => player_cycle' = player_cycle]_vars

\* cycle[-1] on [A, B, C, D] with the cursor on B is D
C17_Witness ==
    /\ player_cycle.iterable = Items
    /\ player_cycle.last_index = 1
    /\ cycle_call.op = "getitem"
    /\ cycle_call.arg = -1
    /\ cycle_call.result = "D"

\* the action values
ActionValues == {WILD, WILD_DRAW_FOUR, DRAW_TWO, SKIP, REVERSE}

\* this step plays a card, and play_card returns
PlayedNow ==
    /\ TurnNo > 0
    /\ Len(turn_log') = TurnNo
    /\ turn_log[TurnNo].played = NoCard
    /\ turn_log'[TurnNo].played # NoCard
    /\ pc' \notin {"hung", "crashed"}

(***************************************************************************)
(* C18.  Action classification: play_card returns True exactly when the    *)
(* value of the card played is WILD, WILD_DRAW_FOUR, DRAW_TWO, SKIP or     *)
(* REVERSE, which is what is_action_card answers for the card.             *)
(***************************************************************************)
C18_ActionClassification ==
    [][PlayedNow =>
          /\ returned' = Bool(turn_log'[TurnNo].played.value \in ActionValues)
          /\ is_action_card(turn_log'[TurnNo].played)
                 = (turn_log'[TurnNo].played.value \in ActionValues)]_vars

\* the game object is constructed and play() not yet called
Constructed == pc = "new"

\* the cards dealt by the constructor: the hands in the order of the
\* players, then the draw pile
Dealt ==
    Flatten([i \in 1..Len(player_names) |-> players[player_names[i]]])
    \o draw_pile

Digits == {"1", "2", "3", "4", "5", "6", "7", "8", "9"}

\* the number of copies of a card a deck of UNO holds
Copies(card) ==
    IF card.color = COLORLESS
    THEN IF card.value \in {WILD, WILD_DRAW_FOUR} THEN 4 ELSE 0
    ELSE IF card.value = ZERO THEN 1
    ELSE IF card.value \in Digits \cup {SKIP, REVERSE, DRAW_TWO} THEN 2
    ELSE 0

(***************************************************************************)
(* C19.  Deck composition: build_deck yields 108 cards, 4 WILD and 4       *)
(* WILD_DRAW_FOUR without color and, in each of the four colors, one 0,    *)
(* two of each of 1 to 9 and two each of SKIP, REVERSE and DRAW_TWO; these *)
(* are the cards the constructor deals.                                    *)
(***************************************************************************)
C19_DeckComposition ==
    Constructed =>
        /\ Len(build_deck) = 108
        /\ \A color \in RealColors \cup {COLORLESS}, value \in Range(CardValue) :
               Count(build_deck, Card(color, value)) = Copies(Card(color, value))
        /\ Len(Dealt) = 108
        /\ \A card \in Range(Dealt) : Count(Dealt, card) = Copies(card)

\* a game of three players as constructed: 21 cards dealt, 87 to draw
C19_Witness ==
    /\ Constructed
    /\ Len(player_names) = 3
    /\ Len(draw_pile) = 87
    /\ Count(Dealt, Card(GREEN, ZERO)) = 1
    /\ Count(Dealt, Card(COLORLESS, WILD)) = 4

\* the cards in the hands
InHands == SumOver(players, DOMAIN players)

\* C20 as first stated: no draw is attempted with the draw pile empty and
\* at most one card in the discard pile
C20_NeverExhausted == [][~ExhaustedDraw]_vars

(***************************************************************************)
(* C20.  Pile exhaustion, amended: a draw is attempted with the draw pile  *)
(* empty and at most one card in the discard pile only when the hands hold *)
(* all the cards of the game but that one at most, 107 cards or more; such *)
(* a state is reached by legal draws and passes.                           *)
(***************************************************************************)
C20_ExhaustedHandsFull ==
    /\ [][ExhaustedDraw => InHands >= 107]_vars
    /\ [](pc = "hung" => InHands >= 107)

\* a player has chosen to draw with nothing left to draw
C20_Witness ==
    /\ pc = "hung"
    /\ draw_count = 1
    /\ Len(discard_pile) = 0
    /\ InHands >= 107

\* the cursor of the cycle is not set, or is an index of its list
CursorInRange ==
    \/ player_cycle.last_index = -1
    \/ player_cycle.last_index \in 0..(player_cycle.length - 1)

\* C21 as first stated: the cursor, if set, is an index of the list, and
\* the list is not empty while the game is running
C21_CursorInRange ==
    /\ CursorInRange
    /\ Playing => Len(player_cycle.iterable) > 0

(***************************************************************************)
(* C21.  Turn cycle cursor, amended: the cursor is not set (-1) or is a    *)
(* count of advances, 0 or more and not bounded by the length, whose       *)
(* remainder modulo the length is the index of the item served last, the   *)
(* player whose turn it is; while the game is running the list holds every *)
(* player and is not empty.                                                *)
(***************************************************************************)
C21_CursorModulo ==
    /\ player_cycle.last_index >= -1
    /\ Playing =>
           /\ player_cycle.length = Len(player_cycle.iterable)
           /\ Len(player_cycle.iterable) > 0
           /\ Range(player_cycle.iterable) = DOMAIN players
    /\ pc \in {"prompt", "computer"} =>
           /\ player_cycle.last_index >= 0
           /\ ItemAt(player_cycle.last_index) = current_player

\* a player is to move with the cursor beyond the last index of the list
C21_Witness ==
    /\ pc = "prompt"
    /\ TurnNo > 0
    /\ player_cycle.last_index >= player_cycle.length
    /\ ItemAt(player_cycle.last_index) = current_player

\* the answer the rule gives for a card against a pile of discards
LegalOn(pile, card) ==
    IF Len(pile) = 0 THEN TRUE
    ELSE IF card.value \in {WILD, WILD_DRAW_FOUR} THEN TRUE
    ELSE (card.color = Last(pile).color) \/ (card.value = Last(pile).value)

\* the least index of a non-empty set of indices
Least(idx) == CHOOSE i \in idx : \A j \in idx : i <= j

ComputerHand == players["computer"]

\* the cards of the computer's hand matching the active card, and its
\* COLORLESS cards, by index
Matching ==
    {i \in DOMAIN ComputerHand :
        \/ ComputerHand[i].color = Last(discard_pile).color
        \/ ComputerHand[i].value = Last(discard_pile).value}

Colorless == {i \in DOMAIN ComputerHand : ComputerHand[i].color = COLORLESS}

\* this step is a whole turn of the computer on an active card
ComputerTurn ==
    /\ pc = "computer"
    /\ pc' # "computer"
    /\ TurnNo > 0
    /\ Len(discard_pile) > 0
    /\ Returns

\* the turn plays the card at index i of the hand and draws nothing
PlaysFromHand(i) ==
    /\ turn_log'[TurnNo].played = ComputerHand[i]
    /\ turn_log'[TurnNo].drawn = 0
    /\ players'["computer"] =
           SubSeq(ComputerHand, 1, i - 1)
               \o SubSeq(ComputerHand, i + 1, Len(ComputerHand))

\* the turn draws one card, and plays it exactly when it is playable
DrawsOne ==
    /\ turn_log'[TurnNo].drawn = 1
    /\ Len(draw_pile) > 0 =>
           turn_log'[TurnNo].played =
               IF Legal(draw_pile[1]) THEN draw_pile[1] ELSE NoCard
    /\ IF turn_log'[TurnNo].played = NoCard
       THEN /\ Len(players'["computer"]) = Len(ComputerHand) + 1
            /\ AllButLast(players'["computer"]) = ComputerHand
            /\ ~LegalOn(discard_pile', Last(players'["computer"]))
       ELSE /\ players'["computer"] = ComputerHand
            /\ LegalOn(AllButLast(discard_pile'), turn_log'[TurnNo].played)

(***************************************************************************)
(* C22.  Heuristic of the computer: on its turn with an active card, if    *)
(* the hand holds a card of the color or value of the active card it plays *)
(* the first such card in hand order and draws nothing; otherwise if it    *)
(* holds a COLORLESS card it plays the first such card and draws nothing;  *)
(* otherwise it draws exactly one card and plays that card if and only if  *)
(* it is playable.  No turn ends with nothing played and nothing drawn.    *)
(***************************************************************************)
C22_ComputerHeuristic ==
    [][ComputerTurn =>
          /\ IF Matching # {} THEN PlaysFromHand(Least(Matching))
             ELSE IF Colorless # {} THEN PlaysFromHand(Least(Colorless))
             ELSE DrawsOne
          /\ \/ turn_log'[TurnNo].played # NoCard
             \/ turn_log'[TurnNo].drawn >= 1]_vars

\* the computer has had nothing to play, has drawn a card and played it
C22_Witness ==
    /\ pc = "turn"
    /\ TurnNo > 0
    /\ turn_log[TurnNo].name = "computer"
    /\ turn_log[TurnNo].drawn = 1
    /\ turn_log[TurnNo].played = Card(RED, "7")
    /\ Last(discard_pile) = Card(RED, "7")

\* this step is a whole turn of the computer, with an active card or not
ComputerStep ==
    /\ pc = "computer"
    /\ pc' # "computer"
    /\ TurnNo > 0
    /\ Returns

(***************************************************************************)
(* C23.  The computer attempts no illegal play: a turn of the computer     *)
(* that returns raises no error, and the card it plays, if any, is a card  *)
(* of its hand (or the card it has just drawn into it) that leaves the     *)
(* hand, and is playable on the active card.                               *)
(***************************************************************************)
C23_ComputerPlaysLegal ==
    [][ComputerStep =>
          LET card == turn_log'[TurnNo].played
              drawn == turn_log'[TurnNo].drawn
          IN  /\ error' = "none"
              /\ pc' # "crashed"
              /\ (card # NoCard /\ drawn = 0) =>
                     /\ Count(ComputerHand, card) > 0
                     /\ Count(players'["computer"], card) =
                            Count(ComputerHand, card) - 1
                     /\ Legal(card)
              /\ (card # NoCard /\ drawn > 0 /\ Len(draw_pile) > 0) =>
                     /\ card = draw_pile[1]
                     /\ SameCards(players'["computer"], ComputerHand)
                     /\ Legal(card)]_vars

\* the computer has played its WILD on YELLOW 9, without an error
C23_Witness ==
    /\ pc = "turn"
    /\ error = "none"
    /\ TurnNo > 0
    /\ turn_log[TurnNo].name = "computer"
    /\ turn_log[TurnNo].played = Card(COLORLESS, WILD)
    /\ Len(discard_pile) > 1
    /\ discard_pile[Len(discard_pile) - 1] = Card(YELLOW, "9")

\* the computer holds a card that is_card_playable accepts
HoldsPlayable == \E i \in DOMAIN ComputerHand : Legal(ComputerHand[i])

(***************************************************************************)
(* C24.  The computer draws only when it has no legal play: a turn of the  *)
(* computer that starts with a playable card in its hand plays a card of   *)
(* the hand and draws nothing.                                             *)
(***************************************************************************)
C24_DrawsOnlyWithoutPlay ==
    [][(ComputerStep /\ HoldsPlayable) =>
          /\ turn_log'[TurnNo].played # NoCard
          /\ turn_log'[TurnNo].drawn = 0
          /\ Count(ComputerHand, turn_log'[TurnNo].played) > 0]_vars

\* the cards of a list that are WILD or WILD_DRAW_FOUR are COLORLESS, and
\* every card of the list is a card of the deck
Canonical(cards) ==
    \A i \in DOMAIN cards :
        /\ cards[i].value \in {WILD, WILD_DRAW_FOUR} => cards[i].color = COLORLESS
        /\ cards[i] \in Range(build_deck)

(***************************************************************************)
(* C25.  Bound wild colors stay on the discard pile: in every reachable    *)
(* state every WILD or WILD_DRAW_FOUR in a hand or in the draw pile is     *)
(* COLORLESS, and every card outside the discard pile is a card of the     *)
(* deck as built.                                                          *)
(***************************************************************************)
C25_WildsColorless ==
    /\ Canonical(draw_pile)
    /\ \A name \in DOMAIN players : Canonical(players[name])

====
